---- MODULE Spec2Model ----
(***************************************************************************)
(* Verification model of pyspecies: the Population orchestrator            *)
(* (lib/population.py) and the packing, residual and Jacobian helpers      *)
(* (src/pyspecies/_utils.py).                                              *)
(*                                                                         *)
(* Numbers are exact: concentrations, coefficients and times are integers  *)
(* (times in units of 1/Scale), for which float64 arithmetic is exact.     *)
(* Vectors are 1-based sequences; index j of the source is j+1 here.       *)
(* The 2x3 coefficient matrices keep the source's 0-based indices.         *)
(***************************************************************************)
EXTENDS Integers, Sequences, FiniteSets

VARIABLES
    Space,    \* Population.Space: the grid
    D,        \* Population.D: the diffusion matrix
    Xlist,    \* Population.Xlist: references (heap addresses) of the stored states
    Tlist,    \* Population.Tlist: the stored times, in units of 1/Scale
    heap,     \* the state vectors Xlist refers to: address -> vector
    outcome,  \* how the last Population call ended, and whether all calls so far returned
    fn,       \* pure helpers: the names of the helpers applied so far, in order
    args,     \* pure helpers: the inputs drawn
    ret       \* pure helpers: the value returned by the last helper applied

vars == <<Space, D, Xlist, Tlist, heap, outcome, fn, args, ret>>
popVars == <<Space, D, Xlist, Tlist, heap, outcome>>
callVars == <<fn, args, ret>>

(***************************************************************************)
(* Bounds                                                                  *)
(***************************************************************************)
MaxLen == 6     \* simulate is not called once Tlist would grow beyond this
MaxN == 3       \* largest number N of samples of one simulate call
MaxDur == 1     \* largest duration of one simulate call
MaxK == 3       \* largest grid size of the helper inputs
MaxGrid == 1    \* largest grid size of a Population

Conc == {0, 1}                 \* concentrations
Coef == {0, 1}                 \* coefficients of the 2x3 matrices

RECURSIVE Fact(_)
Fact(n) == IF n <= 1 THEN 1 ELSE n * Fact(n - 1)

\* Times are stored multiplied by Scale, so that duration * k / (N - 1) is an
\* integer for every N <= MaxN.
Scale == Fact(MaxN - 1)

Last(s) == s[Len(s)]
Vectors(n, S) == [1..n -> S]

(***************************************************************************)
(* Vector packing (_utils.py)                                              *)
(***************************************************************************)
\* A call either returns a value or raises.
Return(v) == [raised |-> FALSE, value |-> v]
Raise(e) == [raised |-> TRUE, error |-> e]

\* K = len(X) // 2; return X[:K], X[K:]
\* (variant: the two halves returned in the other order)
XtoUVSwapped(X) ==
    LET K == Len(X) \div 2
    IN  Return(<<SubSeq(X, K + 1, Len(X)), SubSeq(X, 1, K)>>)
XtoUV(X) ==
    LET K == Len(X) \div 2
    IN  Return(<<SubSeq(X, 1, K), SubSeq(X, K + 1, Len(X))>>)

\* X = zeros(2K); X[:K] = U; X[K:] = V.  The slice assignment broadcasts a
\* one-element V and raises ValueError for any other length but K.
UVtoX(U, V) ==
    LET K == Len(U)
    IN  IF Len(V) = K
        THEN Return([j \in 1..(2 * K) |-> IF j <= K THEN U[j] ELSE V[j - K]])
        ELSE IF Len(V) = 1
        THEN Return([j \in 1..(2 * K) |-> IF j <= K THEN U[j] ELSE V[1]])
        ELSE Raise("ValueError")

(***************************************************************************)
(* Residual and Jacobian helpers (_utils.py)                               *)
(***************************************************************************)
Neg(v) == [j \in 1..Len(v) |-> 0 - v[j]]
Scaled(c, v) == [j \in 1..Len(v) |-> c * v[j]]
Plus(v, w) == [j \in 1..Len(v) |-> v[j] + w[j]]
Minus(v, w) == [j \in 1..Len(v) |-> v[j] - w[j]]

\* np.roll(v, shift)[j] is v[rollFrom(j, shift, len(v))]: entries move by shift
\* positions, wrapping round (shift is 1 or -1)
rollFrom(j, shift, K) == ((j - 1 - shift + K) % K) + 1
roll(v, shift) == [j \in 1..Len(v) |-> v[rollFrom(j, shift, Len(v))]]

\* f(i, A, B, D, R): center - roll(border, 1) - roll(border, -1), entry by entry
\* (variant: the neighbours of the end nodes are not wrapped round)
fNoWrap(i, A, B, Dm, Rm) ==
    LET K == Len(A)
        center(j) == (1 - Rm[i][0] + 2 * Dm[i][0]) * A[j]
                     + (Rm[i][i + 1] + 2 * Dm[i][i + 1]) * (A[j] * A[j])
                     + (Rm[i][2 - i] + 2 * Dm[i][2 - i]) * (A[j] * B[j])
        border(j) == Dm[i][0] * A[j] + Dm[i][i + 1] * (A[j] * A[j])
                     + Dm[i][2 - i] * (A[j] * B[j])
        shifted(j) == IF j \in 1..K THEN border(j) ELSE 0
    IN  [j \in 1..K |-> center(j) - shifted(j - 1) - shifted(j + 1)]
f(i, A, B, Dm, Rm) ==
    LET K == Len(A)
        center(j) == (1 - Rm[i][0] + 2 * Dm[i][0]) * A[j]
                     + (Rm[i][i + 1] + 2 * Dm[i][i + 1]) * (A[j] * A[j])
                     + (Rm[i][2 - i] + 2 * Dm[i][2 - i]) * (A[j] * B[j])
        border(j) == Dm[i][0] * A[j] + Dm[i][i + 1] * (A[j] * A[j])
                     + Dm[i][2 - i] * (A[j] * B[j])
    IN  [j \in 1..K |-> center(j) - border(rollFrom(j, 1, K)) - border(rollFrom(j, -1, K))]

\* block_diags(i, A, D, R): [[-DA[-1]], -DA[1:], R[i, 2-i] * A + 2 * DA, -DA[:-1], [-DA[0]]]
\* (variant: the slices of the super- and sub-diagonal exchanged)
block_diagsSwapped(i, A, Dm, Rm) ==
    LET DA == Scaled(Dm[i][2 - i], A)
        K == Len(A)
    IN  << <<0 - DA[K]>>,
           Neg(SubSeq(DA, 1, K - 1)),
           Plus(Scaled(Rm[i][2 - i], A), Scaled(2, DA)),
           Neg(SubSeq(DA, 2, K)),
           <<0 - DA[1]>> >>
block_diags(i, A, Dm, Rm) ==
    LET DA == Scaled(Dm[i][2 - i], A)
        K == Len(A)
    IN  << <<0 - DA[K]>>,
           Neg(SubSeq(DA, 2, K)),
           Plus(Scaled(Rm[i][2 - i], A), Scaled(2, DA)),
           Neg(SubSeq(DA, 1, K - 1)),
           <<0 - DA[1]>> >>

\* merge_diags(P, Q, R, S); part n of a block in the source is part n + 1 here
\* (variants: the corners of S left out; the corners Q[4] and R[0] exchanged)
merge_diagsShort(P, Q, R, S) ==
    << Q[1], Q[2], Q[3],
       P[1] \o Q[4],
       P[2] \o Q[5] \o S[2],
       P[3] \o S[3],
       P[4] \o R[1] \o S[4],
       P[5] \o R[2],
       R[3], R[4], R[5] >>
merge_diagsCrossed(P, Q, R, S) ==
    << Q[1], Q[2], Q[3],
       P[1] \o Q[4] \o S[1],
       P[2] \o R[1] \o S[2],
       P[3] \o S[3],
       P[4] \o Q[5] \o S[4],
       P[5] \o R[2] \o S[5],
       R[3], R[4], R[5] >>
merge_diags(P, Q, R, S) ==
    << Q[1], Q[2], Q[3],
       P[1] \o Q[4] \o S[1],
       P[2] \o Q[5] \o S[2],
       P[3] \o S[3],
       P[4] \o R[1] \o S[4],
       P[5] \o R[2] \o S[5],
       R[3], R[4], R[5] >>

(***************************************************************************)
(* Population (lib/population.py)                                          *)
(***************************************************************************)
\* np.linspace(0, stop, num), times Scale
linspace(stop, num) ==
    [k \in 1..num |-> IF num = 1 THEN 0 ELSE (stop * Scale * (k - 1)) \div (num - 1)]

\* 2 * Tlist[-1] - Tlist[-2] + Time
\* (variant: the last two times exchanged)
NewTimesSwapped(T, Time) ==
    [k \in 1..Len(Time) |-> 2 * T[Len(T) - 1] - T[Len(T)] + Time[k]]
NewTimes(T, Time) ==
    [k \in 1..Len(Time) |-> 2 * T[Len(T)] - T[Len(T) - 1] + Time[k]]

\* self.Xlist[-1].copy(): a fresh object holding the same values
\* (variant: no copy, the driver is handed the stored object)
AliasState(h, ref) == [heap |-> h, ref |-> ref]
CopyState(h, ref) == [heap |-> Append(h, h[ref]), ref |-> Len(h) + 1]

\* The other value a state vector may take in the model: every concentration flipped.
Flip(X) == [j \in 1..Len(X) |-> 1 - X[j]]

RECURSIVE Walk(_, _)
\* The states a run of choices yields from x: choice TRUE moves to Flip of the previous one
Walk(x, moves) ==
    IF moves = <<>> THEN <<>>
    ELSE LET y == IF moves[1] THEN Flip(x) ELSE x
         IN  <<y>> \o Walk(y, Tail(moves))

\* BackwardEuler(X0, Time, Space, D): one accepted state per time point beyond the
\* first, each a new object, or NewtonDivergence at some step (an exception: nothing
\* is returned).  The driver works on the object X0 it is handed and may change it.
BackwardEuler(h, X0, Time) ==
    LET steps == IF Len(Time) = 0 THEN 0 ELSE Len(Time) - 1
        used(m) == IF m THEN [h EXCEPT ![X0] = Flip(h[X0])] ELSE h
    IN  { [raised |-> FALSE, mutated |-> m,
           heap |-> used(m) \o Walk(h[X0], moves),
           states |-> [j \in 1..steps |-> Len(h) + j]] :
            m \in BOOLEAN, moves \in [1..steps -> BOOLEAN] }
        \cup
        { [raised |-> TRUE, mutated |-> m, heap |-> used(m), states |-> <<>>] :
            m \in {b \in BOOLEAN : steps >= 1} }

\* Objects no longer referenced by Xlist are reclaimed; the others keep their order.
Live(xl) == {xl[j] : j \in 1..Len(xl)}
Rank(xl, a) == Cardinality({b \in Live(xl) : b <= a})
Collect(h, xl) ==
    [n \in 1..Cardinality(Live(xl)) |-> h[CHOOSE a \in Live(xl) : Rank(xl, a) = n]]
Renumber(xl) == [j \in 1..Len(xl) |-> Rank(xl, xl[j])]

Grids == {[j \in 1..k |-> j - 1] : k \in 1..MaxGrid}
DMatrices == {[i \in 0..1 |-> [c \in 0..2 |-> d]] : d \in Coef}

\* Population(Space, u0, v0, D)
PopInit ==
    /\ Space \in Grids
    /\ D \in DMatrices
    /\ \E u0 \in [0..(Len(Space) - 1) -> Conc], v0 \in [0..(Len(Space) - 1) -> Conc] :
         LET X0 == UVtoX([j \in 1..Len(Space) |-> u0[Space[j]]],
                         [j \in 1..Len(Space) |-> v0[Space[j]]])
         IN  /\ heap = <<X0.value>>
             /\ Xlist = <<1, 1>>
    /\ Tlist = <<0, 0>>
    /\ outcome = [call |-> "__init__", raised |-> FALSE, mutated |-> FALSE, N |-> 0,
                  clean |-> TRUE]

\* Population.simulate(duration, N)
simulate(duration, N) ==
    /\ Len(Tlist) + N <= MaxLen
    /\ LET Time == linspace(duration, N)
           T1 == Tlist \o NewTimes(Tlist, Time)
           start == CopyState(heap, Last(Xlist))
       IN  \E run \in BackwardEuler(start.heap, start.ref, Time) :
             LET X1 == IF run.raised THEN Xlist ELSE Xlist \o run.states
             IN  /\ Tlist' = T1
                 /\ Xlist' = Renumber(X1)
                 /\ heap' = Collect(run.heap, X1)
                 /\ outcome' = [call |-> "simulate", raised |-> run.raised,
                                mutated |-> run.mutated, N |-> N,
                                clean |-> outcome.clean /\ ~run.raised]
    /\ UNCHANGED <<Space, D>>
    /\ UNCHANGED callVars

(***************************************************************************)
(* Population: properties                                                  *)
(***************************************************************************)
IsPrefix(s, t) == Len(s) <= Len(t) /\ \A j \in 1..Len(s) : s[j] = t[j]
Deref(h, xl) == [j \in 1..Len(xl) |-> h[xl[j]]]

\* C1: after construction and after any sequence of successful simulate calls the
\* trajectory is made of (time, state) pairs: there are as many stored states as
\* stored times.
C1_PairedTrajectory ==
    outcome.clean => Len(Xlist) = Len(Tlist)

\* C2: a simulate call whose driver fails (NewtonDivergence) appends nothing: Tlist
\* and Xlist are after the call exactly what they were before it.
C2_FailedCallAppendsNothing ==
    [][(outcome'.call = "simulate" /\ outcome'.raised)
         => (Tlist' = Tlist /\ Deref(heap', Xlist') = Deref(heap, Xlist))]_vars

\* C6: the stored times never decrease along Tlist, and its first two entries are
\* both zero (every duration of the model is >= 0).
C6_TimesMonotone ==
    /\ Len(Tlist) >= 2
    /\ Tlist[1] = 0
    /\ Tlist[2] = 0
    /\ \A j \in 1..(Len(Tlist) - 1) : Tlist[j] <= Tlist[j + 1]

\* C6 witness: two calls with a positive duration have appended increasing times.
C6_Witness ==
    /\ Len(Tlist) >= 6
    /\ Tlist[3] < Tlist[4]
    /\ Tlist[4] < Tlist[5]
    /\ Tlist[5] < Tlist[6]

\* C7: simulate is append-only: the times and the states stored before a call are
\* an unchanged prefix of those stored after it (same objects, same values), also
\* when the driver changes the start state it is handed, and D and Space are
\* unchanged.
C7_AppendOnly ==
    [][/\ IsPrefix(Tlist, Tlist')
       /\ IsPrefix(Xlist, Xlist')
       /\ IsPrefix(Deref(heap, Xlist), Deref(heap', Xlist'))
       /\ D' = D
       /\ Space' = Space]_vars

\* C7 witness: a call whose driver changed its start state has appended states.
C7_Witness ==
    /\ outcome.call = "simulate"
    /\ outcome.mutated
    /\ ~outcome.raised
    /\ Len(Xlist) > 2
    /\ Len(Tlist) > 2

NoCall ==
    /\ fn = <<>>
    /\ args = <<>>
    /\ ret = <<>>

Init ==
    /\ PopInit
    /\ NoCall

Next ==
    \E duration \in 0..MaxDur, N \in 0..MaxN : simulate(duration, N)

Spec == Init /\ [][Next]_vars

(***************************************************************************)
(* The helpers of _utils.py are pure: their specifications draw the inputs *)
(* in the initial state and apply the helpers; no Population exists.       *)
(***************************************************************************)
NoPopulation ==
    /\ Space = <<>>
    /\ D = <<>>
    /\ Xlist = <<>>
    /\ Tlist = <<>>
    /\ heap = <<>>
    /\ outcome = [call |-> "none"]

VectorsUpTo(n, S) == UNION {Vectors(k, S) : k \in 0..n}

(***************************************************************************)
(* Vector packing: XtoUV and UVtoX, alone and one after the other          *)
(***************************************************************************)
PackInputs ==
    {[kind |-> "UV", U |-> u, V |-> v] :
        u \in VectorsUpTo(MaxK, Conc), v \in VectorsUpTo(MaxK, Conc)}
    \cup
    {[kind |-> "X", X |-> x] : x \in VectorsUpTo(2 * MaxK, Conc)}

PackInit ==
    /\ NoPopulation
    /\ fn = <<>>
    /\ args \in PackInputs
    /\ ret = <<>>

\* UVtoX(U, V) on the inputs drawn
CallUVtoX ==
    /\ fn = <<>>
    /\ args.kind = "UV"
    /\ ret' = UVtoX(args.U, args.V)
    /\ fn' = <<"UVtoX">>
    /\ UNCHANGED <<args, popVars>>

\* XtoUV(X) on the vector drawn
CallXtoUV ==
    /\ fn = <<>>
    /\ args.kind = "X"
    /\ ret' = XtoUV(args.X)
    /\ fn' = <<"XtoUV">>
    /\ UNCHANGED <<args, popVars>>

\* XtoUV(X) on the vector UVtoX returned
ThenXtoUV ==
    /\ fn = <<"UVtoX">>
    /\ ~ret.raised
    /\ ret' = XtoUV(ret.value)
    /\ fn' = Append(fn, "XtoUV")
    /\ UNCHANGED <<args, popVars>>

\* UVtoX(*XtoUV(X)) on the pair XtoUV returned
ThenUVtoX ==
    /\ fn = <<"XtoUV">>
    /\ ~ret.raised
    /\ ret' = UVtoX(ret.value[1], ret.value[2])
    /\ fn' = Append(fn, "UVtoX")
    /\ UNCHANGED <<args, popVars>>

PackNext == CallUVtoX \/ CallXtoUV \/ ThenXtoUV \/ ThenUVtoX

SpecPack == PackInit /\ [][PackNext]_vars

\* C3: packing is a bijection: for U and V of equal length UVtoX(U, V) has length
\* 2 * len(U), U in its first half and V in its second, and XtoUV gives (U, V) back
\* from it; for X of even length UVtoX(*XtoUV(X)) is X.
C3_RoundTrip ==
    /\ (fn = <<"UVtoX">> /\ Len(args.U) = Len(args.V)) =>
          /\ ~ret.raised
          /\ Len(ret.value) = 2 * Len(args.U)
          /\ SubSeq(ret.value, 1, Len(args.U)) = args.U
          /\ SubSeq(ret.value, Len(args.U) + 1, 2 * Len(args.U)) = args.V
    /\ (fn = <<"UVtoX", "XtoUV">> /\ Len(args.U) = Len(args.V)) =>
          /\ ~ret.raised
          /\ ret.value = <<args.U, args.V>>
    /\ (fn = <<"XtoUV", "UVtoX">> /\ Len(args.X) % 2 = 0) =>
          /\ ~ret.raised
          /\ ret.value = args.X

\* C3 witness: both round trips have been made on inputs whose halves differ.
C3_Witness ==
    /\ fn = <<"UVtoX", "XtoUV">>
    /\ Len(args.U) = MaxK
    /\ Len(args.V) = MaxK
    /\ args.U # args.V
    /\ ret.value = <<args.U, args.V>>

\* C4: XtoUV applied to a vector of odd length is rejected with an error; it never
\* returns two sub-vectors of unequal length.
C4_OddLengthRejected ==
    fn = <<"XtoUV">> =>
        /\ Len(args.X) % 2 = 1 => ret.raised
        /\ ~ret.raised => Len(ret.value[1]) = Len(ret.value[2])

(***************************************************************************)
(* The K-by-K periodic tridiagonal matrix of a block in 5-part form        *)
(* (top-right corner, super-diagonal, main diagonal, sub-diagonal,         *)
(* bottom-left corner); rows and columns are 0-based.                      *)
(***************************************************************************)
PeriodicTri(b, K, r, c) ==
    IF r = c THEN b[3][r + 1]
    ELSE IF c = r + 1 THEN b[2][r + 1]
    ELSE IF r = c + 1 THEN b[4][c + 1]
    ELSE IF r = 0 /\ c = K - 1 THEN b[1][1]
    ELSE IF r = K - 1 /\ c = 0 THEN b[5][1]
    ELSE 0

RECURSIVE RowSum(_, _, _, _, _)
\* sum over the columns c < n of PeriodicTri(b, K, r, c) * e[c]
RowSum(b, K, r, e, n) ==
    IF n = 0 THEN 0
    ELSE RowSum(b, K, r, e, n - 1) + PeriodicTri(b, K, r, n - 1) * e[n]

MatVec(b, K, e) == [j \in 1..K |-> RowSum(b, K, j - 1, e, K)]

(***************************************************************************)
(* Residual f and cross block block_diags                                  *)
(***************************************************************************)
HelperConc == {1, 2}

\* Row 0 of a matrix ranges over all of Coef^3, and so does row 1.
CoefMatrices ==
    {[i \in 0..1 |-> [c \in 0..2 |-> g[(c + i) % 3]]] : g \in [0..2 -> Coef]}

JacInputs ==
    UNION {[i : 0..1, A : Vectors(K, HelperConc), B : Vectors(K, HelperConc),
            D : CoefMatrices, R : CoefMatrices] : K \in 1..MaxK}

JacInit ==
    /\ NoPopulation
    /\ fn = <<>>
    /\ args \in JacInputs
    /\ ret = <<>>

\* f(i, A, B, D, R)
Call_f ==
    /\ fn = <<>>
    /\ ret' = f(args.i, args.A, args.B, args.D, args.R)
    /\ fn' = <<"f">>
    /\ UNCHANGED <<args, popVars>>

\* f(i, np.roll(A, 1), np.roll(B, 1), D, R)
Call_f_rolled ==
    /\ fn = <<>>
    /\ ret' = f(args.i, roll(args.A, 1), roll(args.B, 1), args.D, args.R)
    /\ fn' = <<"roll", "f">>
    /\ UNCHANGED <<args, popVars>>

\* block_diags(i, A, D, R)
Call_block_diags ==
    /\ fn = <<>>
    /\ ret' = block_diags(args.i, args.A, args.D, args.R)
    /\ fn' = <<"block_diags">>
    /\ UNCHANGED <<args, popVars>>

JacNext == Call_f \/ Call_f_rolled \/ Call_block_diags

SpecJac == JacInit /\ [][JacNext]_vars

\* C8: f is translation invariant on the periodic grid: f of A and B both rotated
\* by one position is f of A and B, rotated by one position.
C8_TranslationInvariant ==
    fn = <<"roll", "f">> =>
        ret = roll(f(args.i, args.A, args.B, args.D, args.R), 1)

\* C8 witness: f has been applied to rotated inputs that differ from the inputs,
\* with diffusion, and its result is not the unrotated one.
C8_Witness ==
    /\ fn = <<"roll", "f">>
    /\ Len(args.A) = MaxK
    /\ roll(args.A, 1) # args.A
    /\ args.D[args.i][0] # 0
    /\ ret # f(args.i, args.A, args.B, args.D, args.R)

Perturbations(K) == Vectors(K, {0, 1})

\* C9: for K >= 3 the cross block of block_diags is the Jacobian of f in the other
\* species: f(i, A, B + e) - f(i, A, B) is M * e, M the periodic tridiagonal matrix
\* of the block.
C9_CrossBlockIsJacobian ==
    (fn = <<"block_diags">> /\ Len(args.A) >= 3) =>
        \A e \in Perturbations(Len(args.A)) :
            Minus(f(args.i, args.A, Plus(args.B, e), args.D, args.R),
                  f(args.i, args.A, args.B, args.D, args.R))
              = MatVec(ret, Len(args.A), e)

\* C9 witness: a cross block with diffusion and reaction coupling, built from a
\* concentration vector that is not uniform.
C9_Witness ==
    /\ fn = <<"block_diags">>
    /\ Len(args.A) >= 3
    /\ args.A[1] # args.A[2]
    /\ args.A[2] # args.A[3]
    /\ args.D[args.i][2 - args.i] # 0
    /\ args.R[args.i][2 - args.i] # 0
    /\ ret[2] # ret[4]

(***************************************************************************)
(* Banded assembly: merge_diags                                            *)
(***************************************************************************)
\* A block in 5-part form whose 3K entries are all different, and differ from the
\* entries of the blocks of another tag.
Tags == {100, 200, 300}
Labelled(K, tag) ==
    << <<tag + 1>>,
       [j \in 1..(K - 1) |-> tag + 10 + j],
       [j \in 1..K |-> tag + 20 + j],
       [j \in 1..(K - 1) |-> tag + 30 + j],
       <<tag + 41>> >>

\* The blocks block_diags builds from the concentrations 1, 2, .., K
Ramp(K) == [j \in 1..K |-> j]
RampMatrix == [i \in 0..1 |-> [c \in 0..2 |-> 3 * i + c + 1]]
Built(K) == {block_diags(i, Ramp(K), RampMatrix, RampMatrix) : i \in 0..1}

Blocks(K) == {Labelled(K, tag) : tag \in Tags} \cup Built(K)

MergeInputs ==
    UNION {[K : {K}, P : Blocks(K), Q : Blocks(K), R : Blocks(K), S : Blocks(K)] :
             K \in 1..MaxK}

MergeInit ==
    /\ NoPopulation
    /\ fn = <<>>
    /\ args \in MergeInputs
    /\ ret = <<>>

\* merge_diags(P, Q, R, S)
Call_merge_diags ==
    /\ fn = <<>>
    /\ ret' = merge_diags(args.P, args.Q, args.R, args.S)
    /\ fn' = <<"merge_diags">>
    /\ UNCHANGED <<args, popVars>>

MergeNext == Call_merge_diags

SpecMerge == MergeInit /\ [][MergeNext]_vars

Lengths(bands) == [n \in 1..Len(bands) |-> Len(bands[n])]

\* C5 as stated: merge_diags returns 11 bands of lengths
\* K, K, K, K-1, K-1, K-2, K-1, K-1, K, K, K.
C5_StatedLengths ==
    fn = <<"merge_diags">> =>
        LET K == args.K
        IN  Lengths(ret) = <<K, K, K, K - 1, K - 1, K - 2, K - 1, K - 1, K, K, K>>

\* C5 amended: merge_diags returns exactly 11 bands, of lengths
\* 1, K-1, K, K+1, 2K-1, 2K, 2K-1, K+1, K, K-1, 1.
C5_BandLengths ==
    fn = <<"merge_diags">> =>
        LET K == args.K
        IN  /\ Len(ret) = 11
            /\ Lengths(ret) = <<1, K - 1, K, K + 1, 2 * K - 1, 2 * K,
                                2 * K - 1, K + 1, K, K - 1, 1>>

\* C5 witness: blocks built by block_diags have been merged on a grid of 3 or more.
C5_Witness ==
    /\ fn = <<"merge_diags">>
    /\ args.K >= 3
    /\ {args.P, args.Q, args.R, args.S} \subseteq Built(args.K)
    /\ args.Q # args.R

\* The offsets of the 11 bands in the 2K-by-2K matrix
Offsets(K) ==
    <<2 * K - 1, K + 1, K, K - 1, 1, 0, -1, -(K - 1), -K, -(K + 1), -(2 * K - 1)>>

Abs(x) == IF x < 0 THEN 0 - x ELSE x
Min(x, y) == IF x < y THEN x ELSE y

\* Entry (r, c) of the matrix the bands define: entry t of the band at offset o is
\* at row t, column t + o for o >= 0 and at row t - o, column t for o < 0.
FromBands(bands, K, r, c) ==
    IF \E n \in 1..11 : Offsets(K)[n] = c - r
    THEN bands[CHOOSE n \in 1..11 : Offsets(K)[n] = c - r][Min(r, c) + 1]
    ELSE 0

\* Entry (r, c) of [[P, Q], [R, S]], every block its periodic tridiagonal matrix
BlockMatrix(a, r, c) ==
    LET K == a.K
        b == IF r < K THEN (IF c < K THEN a.P ELSE a.Q)
                      ELSE (IF c < K THEN a.R ELSE a.S)
    IN  PeriodicTri(b, K, r % K, c % K)

\* C10: for K >= 3 the 11 bands, placed at the offsets 2K-1, K+1, K, K-1, 1, 0, -1,
\* -(K-1), -K, -(K+1), -(2K-1) of a 2K-by-2K matrix, each have the length of that
\* diagonal and define exactly the block matrix [[P, Q], [R, S]].
C10_BandsAreBlockMatrix ==
    (fn = <<"merge_diags">> /\ args.K >= 3) =>
        LET K == args.K
        IN  /\ Len(ret) = 11
            /\ \A n \in 1..11 : Len(ret[n]) = 2 * K - Abs(Offsets(K)[n])
            /\ \A r \in 0..(2 * K - 1), c \in 0..(2 * K - 1) :
                 FromBands(ret, K, r, c) = BlockMatrix(args, r, c)

\* C10 witness: four blocks with no entry in common have been merged.
C10_Witness ==
    /\ fn = <<"merge_diags">>
    /\ args.K >= 3
    /\ args.P = Labelled(args.K, 100)
    /\ args.Q = Labelled(args.K, 200)
    /\ args.R = Labelled(args.K, 300)
    /\ args.S \in Built(args.K)
    /\ FromBands(ret, args.K, args.K - 1, args.K) = args.Q[5][1]
    /\ FromBands(ret, args.K, args.K, args.K - 1) = args.R[1][1]

====
